---- MODULE Spec2Model ----
(***************************************************************************)
(* Model of gluoncv/model_zoo/refineDet/vgg_atrous_fusion.py: construction *)
(* of the VGG-atrous extractor (VGGAtrousBase.__init__,                    *)
(* VGGAtrousExtractor.__init__, get_vgg_atrous_extractor) and its forward  *)
(* pass (VGGAtrousExtractor.hybrid_forward).  Tensors are abstracted to    *)
(* their shape (n, c, h, w) and to the chain of operations that produced   *)
(* them; layers are abstracted to their hyper-parameters.                  *)
(***************************************************************************)
EXTENDS Integers, Sequences, FiniteSets, TLC

VARIABLES pc, err, args, net, F, x, outputs, i,
          upsampled_fet, transition_fet, trace, x_in, calls

vars == <<pc, err, args, net, F, x, outputs, i,
          upsampled_fet, transition_fet, trace, x_in, calls>>

(***************************************************************************)
(* Bounds of the model.                                                    *)
(***************************************************************************)
\* largest input height / width fed to the forward pass
MaxH == 130
\* largest batch size
MaxN == 1
\* longest layers / filters list handed directly to the constructor
MaxStages == 7
\* number of forward calls made on one network
MaxCalls == 2

\* input heights: every length; input widths: the multiples of 32
Heights == 1..MaxH
Widths == {w \in 1..MaxH : w % 32 = 0}
Batches == 1..MaxN

(***************************************************************************)
(* Layer descriptors (the nn.* blocks the constructors add).               *)
(***************************************************************************)
Conv2D(f, k, s, p, d) == [op |-> "Conv2D", f |-> f, k |-> k, s |-> s, p |-> p, d |-> d]
BatchNorm == [op |-> "BatchNorm", f |-> 0, k |-> 0, s |-> 0, p |-> 0, d |-> 0]
Relu == [op |-> "relu", f |-> 0, k |-> 0, s |-> 0, p |-> 0, d |-> 0]

\* "if batch_norm: block.add(nn.BatchNorm())"
OptBN(bn) == IF bn THEN <<BatchNorm>> ELSE <<>>

\* conv (+ BatchNorm) + relu, the block every constructor loop adds
ConvBlock(f, k, s, p, d, bn) == <<Conv2D(f, k, s, p, d)>> \o OptBN(bn) \o <<Relu>>

\* Repeat with the loop one iteration short
RECURSIVE Repeat_short(_, _)
Repeat_short(blk, cnt) == IF cnt <= 1 THEN <<>> ELSE blk \o Repeat_short(blk, cnt - 1)

RECURSIVE Repeat(_, _)
Repeat(blk, cnt) == IF cnt <= 0 THEN <<>> ELSE blk \o Repeat(blk, cnt - 1)

(***************************************************************************)
(* The preset tables.                                                      *)
(***************************************************************************)
NumLayers == {11, 13, 16, 19}
ImSizes == {320, 512}

vgg_spec(num_layers) ==
    CASE num_layers = 11 -> [layers |-> <<1, 1, 2, 2, 2>>, filters |-> <<64, 128, 256, 512, 512>>]
      [] num_layers = 13 -> [layers |-> <<2, 2, 2, 2, 2>>, filters |-> <<64, 128, 256, 512, 512>>]
      [] num_layers = 16 -> [layers |-> <<2, 2, 3, 3, 3>>, filters |-> <<64, 128, 256, 512, 512>>]
      [] num_layers = 19 -> [layers |-> <<2, 2, 4, 4, 4>>, filters |-> <<64, 128, 256, 512, 512>>]

extra_spec(im_size) ==
    CASE im_size = 320 -> << << <<256, 1, 1, 0>>, <<512, 3, 2, 1>> >>,
                             << <<128, 1, 1, 0>>, <<256, 3, 2, 1>> >> >>
      [] im_size = 512 -> << << <<256, 1, 1, 0>>, <<512, 3, 2, 1>> >>,
                             << <<128, 1, 1, 0>>, <<256, 3, 2, 1>> >> >>

(***************************************************************************)
(* Python helpers.                                                         *)
(***************************************************************************)
Min(a, b) == IF a <= b THEN a ELSE b

\* zip(layers, filters): pairs up to the shorter list
Zip(layers, filters) ==
    [j \in 1..Min(Len(layers), Len(filters)) |-> [l |-> layers[j], f |-> filters[j]]]

\* ceil(a / b) for b > 0 and any integer a
CeilDiv(a, b) == -((-a) \div b)

(***************************************************************************)
(* Tensors: shape (n, c, h, w), the chain of operations that produced the  *)
(* value (ops) and the fusion blocks that occur anywhere in its history    *)
(* (fus).  kind is "T" for a tensor, "None" for Python's None and "Error"  *)
(* when shape inference of the producing operator fails.                   *)
(***************************************************************************)
Op(name, idx) == [op |-> name, idx |-> idx]

NoneT == [kind |-> "None", n |-> 0, c |-> 0, h |-> 0, w |-> 0, ops |-> <<>>, fus |-> {}]

Input(n, h, w) == [kind |-> "T", n |-> n, c |-> 3, h |-> h, w |-> w, ops |-> <<>>, fus |-> {}]

Shape(t) == <<t.n, t.c, t.h, t.w>>

Failed(t) == [t EXCEPT !.kind = "Error"]

\* ConvOut with the dilation of the kernel forgotten
ConvOut_nodilation(h, k, s, p, d) == ((h + 2 * p - (k - 1) - 1) \div s) + 1

\* output length of a convolution along one axis
ConvOut(h, k, s, p, d) == ((h + 2 * p - d * (k - 1) - 1) \div s) + 1

\* the convolution fits: the dilated kernel does not exceed the padded input
ConvFits(h, k, p, d) == d * (k - 1) + 1 <= h + 2 * p

\* PoolOutFull with the default 'valid' convention (floor instead of ceiling)
PoolOutFull_valid(h, k, s, p) == 1 + ((h + 2 * p - k) \div s)

\* output length of F.Pooling(..., pooling_convention='full') along one axis
PoolOutFull(h, k, s, p) == 1 + CeilDiv(h + 2 * p - k, s)

\* the pooling kernel does not exceed the padded input
PoolFits(h, k, p) == k <= h + 2 * p

\* one layer of a HybridSequential applied to a tensor
ApplyLayer(layer, t) ==
    IF t.kind # "T" THEN t
    ELSE IF layer.op = "Conv2D"
         THEN IF ConvFits(t.h, layer.k, layer.p, layer.d) /\ ConvFits(t.w, layer.k, layer.p, layer.d)
              THEN [t EXCEPT !.c = layer.f,
                             !.h = ConvOut(t.h, layer.k, layer.s, layer.p, layer.d),
                             !.w = ConvOut(t.w, layer.k, layer.s, layer.p, layer.d)]
              ELSE Failed(t)
         ELSE t

\* a HybridSequential applied to a tensor: its children in order
RECURSIVE ApplySeq(_, _)
ApplySeq(seq, t) ==
    IF seq = <<>> THEN t ELSE ApplySeq(Tail(seq), ApplyLayer(Head(seq), t))

\* ApplySeq, recording the block in the tensor's history
Run(seq, name, idx, t) ==
    LET r == ApplySeq(seq, t) IN [r EXCEPT !.ops = Append(t.ops, Op(name, idx))]

\* self.fusions[idx] applied to a tensor
Fuse(seq, idx, t) == [Run(seq, "fusion", idx, t) EXCEPT !.fus = @ \cup {idx}]

\* F.Pooling(x, pool_type='max', kernel=(k,k), stride=(s,s), pad=(p,p), pooling_convention='full')
Pooling(t, k, s, p) ==
    LET r == IF PoolFits(t.h, k, p) /\ PoolFits(t.w, k, p)
             THEN [t EXCEPT !.h = PoolOutFull(t.h, k, s, p), !.w = PoolOutFull(t.w, k, s, p)]
             ELSE Failed(t)
    IN [r EXCEPT !.ops = Append(t.ops, Op("Pooling", k))]

\* Normalize.hybrid_forward: L2Normalization keeps the shape, broadcast_mul
\* with the (1, n_channel, 1, 1) scale needs n_channel = c (or one of them 1)
NormalizeFwd(norm, idx, t) ==
    LET r == IF norm.n_channel = t.c \/ norm.n_channel = 1 \/ t.c = 1
             THEN [t EXCEPT !.c = IF t.c = 1 THEN norm.n_channel ELSE t.c]
             ELSE Failed(t)
    IN [r EXCEPT !.ops = Append(t.ops, Op("Normalize", idx))]

\* _upsample with the repeat along axis -2 forgotten
_upsample_width_only(t, stride) ==
    [t EXCEPT !.w = t.w * stride, !.ops = Append(t.ops, Op("_upsample", stride))]

\* _upsample: repeat along the last axis, then along the one before
_upsample(t, stride) ==
    [t EXCEPT !.w = t.w * stride, !.h = t.h * stride,
              !.ops = Append(t.ops, Op("_upsample", stride))]

\* one axis of a + b: the ndarray operator broadcasts a length-1 axis, the
\* symbol operator (elemwise add) needs equal lengths
AddAxisOK(f, a, b) == a = b \/ (f = "ndarray" /\ (a = 1 \/ b = 1))
AddAxis(a, b) == IF a = 1 THEN b ELSE a

\* AddRelu with the fusion block applied to the sum inside the top-down loop
AddRelu_fused(f, a, b, idx) ==
    LET ok == /\ AddAxisOK(f, a.n, b.n) /\ AddAxisOK(f, a.c, b.c)
              /\ AddAxisOK(f, a.h, b.h) /\ AddAxisOK(f, a.w, b.w)
        r == [kind |-> IF ok THEN "T" ELSE "Error",
              n |-> AddAxis(a.n, b.n), c |-> AddAxis(a.c, b.c),
              h |-> AddAxis(a.h, b.h), w |-> AddAxis(a.w, b.w),
              ops |-> Append(b.ops, Op("add_relu", idx)),
              fus |-> a.fus \cup b.fus]
    IN Fuse(net.fusions[idx + 1], idx, r)

\* F.Activation(upsampled_fet + transition_fet, act_type='relu')
AddRelu(f, a, b, idx) ==
    LET ok == /\ AddAxisOK(f, a.n, b.n) /\ AddAxisOK(f, a.c, b.c)
              /\ AddAxisOK(f, a.h, b.h) /\ AddAxisOK(f, a.w, b.w)
        r == [kind |-> IF ok THEN "T" ELSE "Error",
              n |-> AddAxis(a.n, b.n), c |-> AddAxis(a.c, b.c),
              h |-> AddAxis(a.h, b.h), w |-> AddAxis(a.w, b.w),
              ops |-> Append(b.ops, Op("add_relu", idx)),
              fus |-> a.fus \cup b.fus]
    IN r

(***************************************************************************)
(* The network object under construction.                                  *)
(***************************************************************************)
NoNorm == [n_channel |-> 0, initial |-> 0]

\* Normalize(n_channel, initial)
Normalize(n_channel, initial) == [n_channel |-> n_channel, initial |-> initial]

EmptyNet == [attrs |-> {}, init_scale |-> <<>>, stages |-> <<>>,
             norm4 |-> NoNorm, norm5 |-> NoNorm, extras |-> <<>>,
             last_layer_trans |-> <<>>, transitions |-> <<>>, fusions |-> <<>>]

NoArgs == [layers |-> <<>>, filters |-> <<>>, extras |-> <<>>, batch_norm |-> FALSE,
           preset |-> FALSE]

\* no mapping has been created yet
NoOutputs == <<>>

Init ==
    /\ pc = "start"
    /\ err = "none"
    /\ args = NoArgs
    /\ net = EmptyNet
    /\ F = "none"
    /\ x = NoneT
    /\ outputs = NoOutputs
    /\ i = 0
    /\ upsampled_fet = NoneT
    /\ transition_fet = NoneT
    /\ trace = <<>>
    /\ x_in = NoneT
    /\ calls = 0

fwdVars == <<F, x, outputs, upsampled_fet, transition_fet, trace, x_in, calls>>

\* get_vgg_atrous_extractor(num_layers, im_size, pretrained=False, batch_norm=bn):
\* table lookups, then VGGAtrousExtractor(layers, filters, extras, **kwargs)
get_vgg_atrous_extractor ==
    /\ pc = "start"
    /\ \E num_layers \in NumLayers, im_size \in ImSizes, bn \in BOOLEAN :
          args' = [layers |-> vgg_spec(num_layers).layers,
                   filters |-> vgg_spec(num_layers).filters,
                   extras |-> extra_spec(im_size),
                   batch_norm |-> bn, preset |-> TRUE]
    /\ pc' = "base_assert"
    /\ UNCHANGED <<err, net, i, fwdVars>>

\* lists a caller hands to the constructor directly
CustomLayerCounts == {1, 2}
CustomFilters == {64, 512}
ConstSeq(len, v) == [j \in 1..len |-> v]

\* VGGAtrousExtractor(layers, filters, extras, batch_norm) called directly
VGGAtrousExtractor ==
    /\ pc = "start"
    /\ \E nl \in 0..MaxStages, nf \in 0..MaxStages, l \in CustomLayerCounts,
          f \in CustomFilters, im_size \in ImSizes, bn \in BOOLEAN :
          args' = [layers |-> ConstSeq(nl, l), filters |-> ConstSeq(nf, f),
                   extras |-> extra_spec(im_size), batch_norm |-> bn, preset |-> FALSE]
    /\ pc' = "base_assert"
    /\ UNCHANGED <<err, net, i, fwdVars>>

\* VGGAtrousBase.__init__ without the length assertion
BaseAssert_missing ==
    /\ pc = "base_assert"
    /\ pc' = "base_scale"
    /\ UNCHANGED <<err, args, net, i, fwdVars>>

\* VGGAtrousBase.__init__: assert len(layers) == len(filters)
BaseAssert ==
    /\ pc = "base_assert"
    /\ IF Len(args.layers) = Len(args.filters)
       THEN pc' = "base_scale" /\ err' = err
       ELSE pc' = "ctor_failed" /\ err' = "AssertionError"
    /\ UNCHANGED <<args, net, i, fwdVars>>

\* self.init_scale = get_constant(...); self.stages = nn.HybridSequential()
BaseInitScale ==
    /\ pc = "base_scale"
    /\ net' = [net EXCEPT !.attrs = @ \cup {"init_scale", "stages"},
                          !.init_scale = <<58395, 57120, 57375>>,
                          !.stages = <<>>]
    /\ i' = 0
    /\ pc' = "base_stages"
    /\ UNCHANGED <<err, args, fwdVars>>

\* one iteration of "for l, f in zip(layers, filters)"
BaseAddStage ==
    /\ pc = "base_stages"
    /\ i < Len(Zip(args.layers, args.filters))
    /\ LET lf == Zip(args.layers, args.filters)[i + 1]
           stage == Repeat(ConvBlock(lf.f, 3, 1, 1, 1, args.batch_norm), lf.l)
       IN net' = [net EXCEPT !.stages = Append(@, stage)]
    /\ i' = i + 1
    /\ UNCHANGED <<pc, err, args, fwdVars>>

\* the dilated stage, added after the loop
BaseDilated ==
    /\ pc = "base_stages"
    /\ i = Len(Zip(args.layers, args.filters))
    /\ LET stage == ConvBlock(1024, 3, 1, 6, 6, args.batch_norm)
                    \o ConvBlock(1024, 1, 1, 0, 1, args.batch_norm)
       IN net' = [net EXCEPT !.stages = Append(@, stage)]
    /\ pc' = "base_norms"
    /\ UNCHANGED <<err, args, i, fwdVars>>

\* self.norm4 = Normalize(filters[3], 20); self.norm5 = Normalize(1024, 8)
BaseNorms ==
    /\ pc = "base_norms"
    /\ IF Len(args.filters) >= 4
       THEN /\ net' = [net EXCEPT !.attrs = @ \cup {"norm4", "norm5"},
                                  !.norm4 = Normalize(args.filters[4], 20),
                                  !.norm5 = Normalize(1024, 8)]
            /\ pc' = "ext_extras"
            /\ err' = err
       ELSE /\ pc' = "ctor_failed"
            /\ err' = "IndexError"
            /\ net' = net
    /\ i' = 0
    /\ UNCHANGED <<args, fwdVars>>

\* the blocks of one extra stage: for f, k, s, p in config
RECURSIVE ExtraBlocks(_, _)
ExtraBlocks(config, bn) ==
    IF config = <<>> THEN <<>>
    ELSE LET t == Head(config)
         IN ConvBlock(t[1], t[2], t[3], t[4], 1, bn) \o ExtraBlocks(Tail(config), bn)

\* one iteration of "for i, config in enumerate(extras)"
ExtAddExtra ==
    /\ pc = "ext_extras"
    /\ i < Len(args.extras)
    /\ net' = [net EXCEPT !.attrs = @ \cup {"extras"},
                          !.extras = Append(@, ExtraBlocks(args.extras[i + 1], args.batch_norm))]
    /\ i' = i + 1
    /\ UNCHANGED <<pc, err, args, fwdVars>>

\* self.last_layer_trans: three conv (+ BatchNorm) + relu blocks
ExtLastLayerTrans ==
    /\ pc = "ext_extras"
    /\ i = Len(args.extras)
    /\ net' = [net EXCEPT !.attrs = @ \cup {"extras", "last_layer_trans"},
                          !.last_layer_trans = Repeat(ConvBlock(256, 3, 1, 1, 1, args.batch_norm), 3)]
    /\ pc' = "ext_transitions"
    /\ UNCHANGED <<err, args, i, fwdVars>>

\* one transition: conv (+ BatchNorm) + relu + conv (+ BatchNorm), no final relu
Transition(bn) ==
    <<Conv2D(256, 3, 1, 1, 1)>> \o OptBN(bn) \o <<Relu>> \o <<Conv2D(256, 3, 1, 1, 1)>> \o OptBN(bn)

\* self.transitions: three transitions
ExtTransitions ==
    /\ pc = "ext_transitions"
    /\ net' = [net EXCEPT !.attrs = @ \cup {"transitions"},
                          !.transitions = [j \in 1..3 |-> Transition(args.batch_norm)]]
    /\ pc' = "ext_fusions"
    /\ UNCHANGED <<err, args, i, fwdVars>>

\* self.fusions: three conv (+ BatchNorm) + relu blocks; the constructor returns
ExtFusions ==
    /\ pc = "ext_fusions"
    /\ net' = [net EXCEPT !.attrs = @ \cup {"fusions"},
                          !.fusions = [j \in 1..3 |-> ConvBlock(256, 3, 1, 1, 1, args.batch_norm)]]
    /\ pc' = "ready"
    /\ UNCHANGED <<err, args, i, fwdVars>>

(***************************************************************************)
(* VGGAtrousExtractor.hybrid_forward.  Python indices are 0-based, the     *)
(* sequences here 1-based: stages[k] is net.stages[k + 1], and so on.      *)
(* outputs holds the mapping most recently created by a forward call; the  *)
(* call has returned it exactly when pc = "fwd_returned".                  *)
(***************************************************************************)
\* the mapping kept across calls instead of created per call
NewOutputs_kept(prev) ==
    IF DOMAIN prev = {} THEN [ARM_features |-> <<>>, ODM_features |-> <<>>] ELSE prev

\* outputs = {"ARM_features": [], "ODM_features": []}
NewOutputs(prev) == [ARM_features |-> <<>>, ODM_features |-> <<>>]

\* an exception leaves hybrid_forward
Raise(e) == pc' = "fwd_failed" /\ err' = e

\* FwdEnter with the assertion weakened to len(self.stages) >= 6
FwdEnter_atleast6 ==
    /\ pc = "ready"
    /\ calls < MaxCalls
    /\ calls' = calls + 1
    /\ \E f \in {"ndarray", "symbol"}, n \in Batches, h \in Heights, w \in Widths :
          /\ F' = f
          /\ x_in' = Input(n, h, w)
          /\ x' = [Input(n, h, w) EXCEPT !.ops = <<Op("broadcast_mul", 0)>>]
    /\ upsampled_fet' = NoneT
    /\ transition_fet' = NoneT
    /\ trace' = <<>>
    /\ i' = 0
    /\ IF Len(net.stages) >= 6
       THEN /\ outputs' = NewOutputs(outputs)
            /\ pc' = "fwd_stages"
            /\ err' = "none"
       ELSE /\ Raise("AssertionError")
            /\ outputs' = outputs
    /\ UNCHANGED <<args, net>>

\* entry of a call: x = F.broadcast_mul(x, init_scale); assert len(self.stages) == 6;
\* outputs = {...}
FwdEnter ==
    /\ pc = "ready"
    /\ calls < MaxCalls
    /\ calls' = calls + 1
    /\ \E f \in {"ndarray", "symbol"}, n \in Batches, h \in Heights, w \in Widths :
          /\ F' = f
          /\ x_in' = Input(n, h, w)
          /\ x' = [Input(n, h, w) EXCEPT !.ops = <<Op("broadcast_mul", 0)>>]
    /\ upsampled_fet' = NoneT
    /\ transition_fet' = NoneT
    /\ trace' = <<>>
    /\ i' = 0
    /\ IF Len(net.stages) = 6
       THEN /\ outputs' = NewOutputs(outputs)
            /\ pc' = "fwd_stages"
            /\ err' = "none"
       ELSE /\ Raise("AssertionError")
            /\ outputs' = outputs
    /\ UNCHANGED <<args, net>>

\* one iteration of "for stage in self.stages[:3]": the stage, then 2x2/2 pooling
FwdStagePool ==
    /\ pc = "fwd_stages"
    /\ i < 3
    /\ LET y == Pooling(Run(net.stages[i + 1], "stage", i, x), 2, 2, 0)
       IN /\ x' = y
          /\ IF y.kind = "T" THEN pc' = pc /\ err' = err ELSE Raise("MXNetError")
    /\ i' = i + 1
    /\ UNCHANGED <<args, net, x_in, calls, F, outputs, upsampled_fet, transition_fet, trace>>

\* x = self.stages[3](x)
FwdStage3 ==
    /\ pc = "fwd_stages"
    /\ i = 3
    /\ x' = Run(net.stages[4], "stage", 3, x)
    /\ pc' = "fwd_norm4"
    /\ UNCHANGED <<err, args, net, x_in, calls, F, outputs, i, upsampled_fet, transition_fet, trace>>

\* FwdNorm4 with the Normalize output rebound to x
FwdNorm4_rebind ==
    /\ pc = "fwd_norm4"
    /\ LET norm4 == NormalizeFwd(net.norm4, 4, x)
       IN /\ outputs' = [outputs EXCEPT !.ARM_features = Append(@, norm4)]
          /\ x' = norm4
          /\ IF norm4.kind = "T" THEN pc' = "fwd_pool4" /\ err' = err ELSE Raise("MXNetError")
    /\ UNCHANGED <<args, net, x_in, calls, F, i, upsampled_fet, transition_fet, trace>>

\* norm4 = self.norm4(x); outputs["ARM_features"].append(norm4)
FwdNorm4 ==
    /\ pc = "fwd_norm4"
    /\ LET norm4 == NormalizeFwd(net.norm4, 4, x)
       IN /\ outputs' = [outputs EXCEPT !.ARM_features = Append(@, norm4)]
          /\ IF norm4.kind = "T" THEN pc' = "fwd_pool4" /\ err' = err ELSE Raise("MXNetError")
    /\ UNCHANGED <<args, net, x_in, calls, F, x, i, upsampled_fet, transition_fet, trace>>

\* x = F.Pooling(x, kernel=(2, 2), stride=(2, 2), pooling_convention='full')
FwdPool4 ==
    /\ pc = "fwd_pool4"
    /\ LET y == Pooling(x, 2, 2, 0)
       IN /\ x' = y
          /\ IF y.kind = "T" THEN pc' = "fwd_stage4" /\ err' = err ELSE Raise("MXNetError")
    /\ UNCHANGED <<args, net, x_in, calls, F, outputs, i, upsampled_fet, transition_fet, trace>>

\* x = self.stages[4](x)
FwdStage4 ==
    /\ pc = "fwd_stage4"
    /\ x' = Run(net.stages[5], "stage", 4, x)
    /\ pc' = "fwd_pool5"
    /\ UNCHANGED <<err, args, net, x_in, calls, F, outputs, i, upsampled_fet, transition_fet, trace>>

\* x = F.Pooling(x, kernel=(3, 3), stride=(1, 1), pad=(1, 1), pooling_convention='full')
FwdPool5 ==
    /\ pc = "fwd_pool5"
    /\ LET y == Pooling(x, 3, 1, 1)
       IN /\ x' = y
          /\ IF y.kind = "T" THEN pc' = "fwd_stage5" /\ err' = err ELSE Raise("MXNetError")
    /\ UNCHANGED <<args, net, x_in, calls, F, outputs, i, upsampled_fet, transition_fet, trace>>

\* x = self.stages[5](x)
FwdStage5 ==
    /\ pc = "fwd_stage5"
    /\ x' = Run(net.stages[6], "stage", 5, x)
    /\ pc' = "fwd_norm5"
    /\ UNCHANGED <<err, args, net, x_in, calls, F, outputs, i, upsampled_fet, transition_fet, trace>>

\* norm5 = self.norm5(x); outputs["ARM_features"].append(norm5)
FwdNorm5 ==
    /\ pc = "fwd_norm5"
    /\ LET norm5 == NormalizeFwd(net.norm5, 5, x)
       IN /\ outputs' = [outputs EXCEPT !.ARM_features = Append(@, norm5)]
          /\ IF norm5.kind = "T" THEN pc' = "fwd_extras" /\ err' = err ELSE Raise("MXNetError")
    /\ i' = 0
    /\ UNCHANGED <<args, net, x_in, calls, F, x, upsampled_fet, transition_fet, trace>>

\* one iteration of "for extra in self.extras"
FwdExtra ==
    /\ pc = "fwd_extras"
    /\ i < Len(net.extras)
    /\ LET y == Run(net.extras[i + 1], "extra", i, x)
       IN /\ x' = y
          /\ outputs' = [outputs EXCEPT !.ARM_features = Append(@, y)]
          /\ IF y.kind = "T" THEN pc' = pc /\ err' = err ELSE Raise("MXNetError")
    /\ i' = i + 1
    /\ UNCHANGED <<args, net, x_in, calls, F, upsampled_fet, transition_fet, trace>>

\* outputs["ODM_features"] = [None] * 4
FwdOdmInit ==
    /\ pc = "fwd_extras"
    /\ i = Len(net.extras)
    /\ outputs' = [outputs EXCEPT !.ODM_features = [j \in 1..4 |-> NoneT]]
    /\ trace' = Append(trace, Op("odm_init", 4))
    /\ pc' = "fwd_last_trans"
    /\ UNCHANGED <<err, args, net, x_in, calls, F, x, i, upsampled_fet, transition_fet>>

\* FwdLastTrans writing slot 0 instead of slot -1
FwdLastTrans_slot0 ==
    /\ pc = "fwd_last_trans"
    /\ LET arm == outputs.ARM_features
           y == Run(net.last_layer_trans, "last_layer_trans", 0, arm[Len(arm)])
       IN /\ outputs' = [outputs EXCEPT !.ODM_features[1] = y]
          /\ IF y.kind = "T" THEN pc' = "fwd_topdown" /\ err' = err ELSE Raise("MXNetError")
    /\ trace' = Append(trace, Op("odm_write", 0))
    /\ i' = 3
    /\ UNCHANGED <<args, net, x_in, calls, F, x, upsampled_fet, transition_fet>>

\* outputs["ODM_features"][-1] = self.last_layer_trans(outputs['ARM_features'][-1])
FwdLastTrans ==
    /\ pc = "fwd_last_trans"
    /\ LET arm == outputs.ARM_features
           y == Run(net.last_layer_trans, "last_layer_trans", 0, arm[Len(arm)])
       IN /\ outputs' = [outputs EXCEPT !.ODM_features[4] = y]
          /\ IF y.kind = "T" THEN pc' = "fwd_topdown" /\ err' = err ELSE Raise("MXNetError")
    /\ trace' = Append(trace, Op("odm_write", 3))
    /\ i' = 3
    /\ UNCHANGED <<args, net, x_in, calls, F, x, upsampled_fet, transition_fet>>

\* one iteration of "for i in range(3, 0, -1)"
FwdTopDown ==
    /\ pc = "fwd_topdown"
    /\ i > 0
    /\ LET deep_fet == outputs.ODM_features[i + 1]
           shallow_fet == outputs.ARM_features[i]
       IN IF deep_fet.kind = "None"
          THEN /\ Raise("AttributeError")
               /\ trace' = Append(trace, Op("odm_read", i))
               /\ UNCHANGED <<outputs, upsampled_fet, transition_fet, i>>
          ELSE LET up == _upsample(deep_fet, 2)
                   tr == Run(net.transitions[i], "transition", i - 1, shallow_fet)
                   ele_sum == AddRelu(F, up, tr, i - 1)
               IN /\ upsampled_fet' = up
                  /\ transition_fet' = tr
                  /\ IF ele_sum.kind = "T"
                     THEN /\ outputs' = [outputs EXCEPT !.ODM_features[i] = ele_sum]
                          /\ trace' = trace \o <<Op("odm_read", i), Op("odm_write", i - 1)>>
                          /\ i' = i - 1
                          /\ pc' = pc /\ err' = err
                     ELSE /\ Raise("MXNetError")
                          /\ trace' = Append(trace, Op("odm_read", i))
                          /\ UNCHANGED <<outputs, i>>
    /\ UNCHANGED <<args, net, x_in, calls, F, x>>

\* the top-down loop is exhausted; "for i in range(3)" starts
FwdTopDownDone ==
    /\ pc = "fwd_topdown"
    /\ i = 0
    /\ pc' = "fwd_fusions"
    /\ UNCHANGED <<err, args, net, x_in, calls, F, x, outputs, i, upsampled_fet, transition_fet, trace>>

\* one iteration of "for i in range(3)":
\* outputs["ODM_features"][i] = self.fusions[i](outputs["ODM_features"][i])
FwdFusion ==
    /\ pc = "fwd_fusions"
    /\ i < 3
    /\ LET y == Fuse(net.fusions[i + 1], i, outputs.ODM_features[i + 1])
       IN /\ outputs' = [outputs EXCEPT !.ODM_features[i + 1] = y]
          /\ IF y.kind = "T" THEN pc' = pc /\ err' = err ELSE Raise("MXNetError")
    /\ trace' = Append(trace, Op("fusion", i))
    /\ i' = i + 1
    /\ UNCHANGED <<args, net, x_in, calls, F, x, upsampled_fet, transition_fet>>

\* return outputs
FwdReturn ==
    /\ pc = "fwd_fusions"
    /\ i = 3
    /\ pc' = "fwd_returned"
    /\ UNCHANGED <<err, args, net, x_in, calls, F, x, outputs, i, upsampled_fet, transition_fet, trace>>

\* the call is over: its frame is discarded; the caller keeps a returned mapping,
\* while the mapping of a call that raised is unreachable
FwdLeave ==
    /\ pc \in {"fwd_returned", "fwd_failed"}
    /\ outputs' = IF pc = "fwd_returned" THEN outputs ELSE NoOutputs
    /\ F' = "none"
    /\ x' = NoneT
    /\ upsampled_fet' = NoneT
    /\ transition_fet' = NoneT
    /\ trace' = <<>>
    /\ x_in' = NoneT
    /\ i' = 0
    /\ err' = "none"
    /\ pc' = "ready"
    /\ UNCHANGED <<args, net, calls>>

Next ==
    \/ get_vgg_atrous_extractor
    \/ VGGAtrousExtractor
    \/ BaseAssert
    \/ BaseInitScale
    \/ BaseAddStage
    \/ BaseDilated
    \/ BaseNorms
    \/ ExtAddExtra
    \/ ExtLastLayerTrans
    \/ ExtTransitions
    \/ ExtFusions
    \/ FwdEnter
    \/ FwdStagePool
    \/ FwdStage3
    \/ FwdNorm4
    \/ FwdPool4
    \/ FwdStage4
    \/ FwdPool5
    \/ FwdStage5
    \/ FwdNorm5
    \/ FwdExtra
    \/ FwdOdmInit
    \/ FwdLastTrans
    \/ FwdTopDown
    \/ FwdTopDownDone
    \/ FwdFusion
    \/ FwdReturn
    \/ FwdLeave

Spec == Init /\ [][Next]_vars

(***************************************************************************)
(* Properties.                                                             *)
(***************************************************************************)
FwdPcs == {"fwd_stages", "fwd_norm4", "fwd_pool4", "fwd_stage4", "fwd_pool5",
           "fwd_stage5", "fwd_norm5", "fwd_extras", "fwd_last_trans",
           "fwd_topdown", "fwd_fusions", "fwd_returned", "fwd_failed"}

\* inside a forward call that has passed its entry (the mapping exists)
InCall == pc \in FwdPcs /\ DOMAIN outputs # {}
Div64 == x_in.h % 64 = 0 /\ x_in.w % 64 = 0
ARM == outputs.ARM_features
ODM == outputs.ODM_features
Pow2(k) == CASE k = 0 -> 1 [] k = 1 -> 2 [] k = 2 -> 4 [] k = 3 -> 8
             [] k = 4 -> 16 [] k = 5 -> 32 [] k = 6 -> 64
ARMChannels == <<args.filters[4], 1024, 512, 256>>

\* C1: on a preset network and an input (N,3,H,W) with H and W divisible by 64
\* the forward pass does not fail, every ARM feature appended so far has shape
\* (N, [filters[3],1024,512,256][k], H/2^(k+3), W/2^(k+3)) for k = 0..3, four
\* ARM features are returned, and the layer arithmetic is the stated one:
\* 3x3/pad-1 convs, the 3x3/1/pad-1 pool and the dilated conv keep the size,
\* the 2x2/2 full pool gives ceil(h/2), the 3x3/2/pad-1 conv floor((h-1)/2)+1.
C1_ARMShapes ==
    (InCall /\ args.preset /\ Div64) =>
        /\ pc # "fwd_failed"
        /\ pc \notin {"fwd_stages", "fwd_norm4"} =>
             /\ Len(ARM) <= 4
             /\ \A k \in 1..Len(ARM) :
                   /\ ARM[k].kind = "T"
                   /\ Shape(ARM[k]) = <<x_in.n, ARMChannels[k],
                                        x_in.h \div Pow2(k + 2), x_in.w \div Pow2(k + 2)>>
        /\ pc \in {"fwd_last_trans", "fwd_topdown", "fwd_fusions", "fwd_returned"} => Len(ARM) = 4
        /\ LET h == x.h
           IN /\ ConvOut(h, 3, 1, 1, 1) = h
              /\ PoolOutFull(h, 3, 1, 1) = h
              /\ ConvOut(h, 3, 1, 6, 6) = h
              /\ PoolOutFull(h, 2, 2, 0) = CeilDiv(h, 2)
              /\ ConvOut(h, 3, 2, 1, 1) = ((h - 1) \div 2) + 1

C1_Witness ==
    /\ pc = "fwd_returned" /\ args.preset /\ args.batch_norm
    /\ x_in.h = 128 /\ x_in.w = 64
    /\ Len(ARM) = 4
    /\ Shape(ARM[4]) = <<x_in.n, 256, 2, 1>>

\* C2: on a preset network and an input with H and W divisible by 64 the
\* forward pass does not fail, at every top-down step the upsampled deep
\* feature and the transitioned shallow feature have the same shape, every
\* filled ODM slot has 256 channels and the spatial size of the ARM feature of
\* the same index, and all four slots are filled on return.
C2_ODMShapes ==
    (InCall /\ args.preset /\ Div64) =>
        /\ pc # "fwd_failed"
        /\ upsampled_fet.kind # "None" =>
             /\ upsampled_fet.kind = "T" /\ transition_fet.kind = "T"
             /\ Shape(upsampled_fet) = Shape(transition_fet)
        /\ \A k \in 1..Len(ODM) :
              ODM[k].kind # "None" =>
                 /\ ODM[k].kind = "T"
                 /\ Shape(ODM[k]) = <<x_in.n, 256, ARM[k].h, ARM[k].w>>
        /\ pc = "fwd_returned" =>
             /\ Len(ODM) = 4 /\ Len(ARM) = 4
             /\ \A k \in 1..4 : ODM[k].kind = "T"

C2_Witness ==
    /\ pc = "fwd_returned" /\ args.preset
    /\ x_in.h = 64 /\ x_in.w = 128
    /\ Shape(ODM[1]) = <<x_in.n, 256, 8, 16>>
    /\ Shape(ODM[4]) = <<x_in.n, 256, 1, 2>>
    /\ Shape(upsampled_fet) = <<x_in.n, 256, 8, 16>>

\* what a call on a preset network returns: exactly the two keys, four
\* tensors each, no None slot, all of them computed from this call's input
ReturnedMappingOK ==
    (pc = "fwd_returned" /\ args.preset) =>
        /\ DOMAIN outputs = {"ARM_features", "ODM_features"}
        /\ Len(ARM) = 4
        /\ Len(ODM) = 4
        /\ \A k \in 1..4 :
              /\ ARM[k].kind = "T" /\ ODM[k].kind = "T"
              /\ ARM[k].n = x_in.n /\ ODM[k].n = x_in.n
              /\ Head(ARM[k].ops) = Op("broadcast_mul", 0)
        /\ ARM[1].h = CeilDiv(x_in.h, 8) /\ ARM[1].w = CeilDiv(x_in.w, 8)

\* a step of a forward call leaves the constructed network alone
NetUntouched == (pc \in FwdPcs \cup {"ready"}) => net' = net

RECURSIVE NumConvs(_)
NumConvs(seq) ==
    IF seq = <<>> THEN 0
    ELSE (IF Head(seq).op = "Conv2D" THEN 1 ELSE 0) + NumConvs(Tail(seq))

CtorPcs == {"base_assert", "base_scale", "base_stages", "base_norms", "ext_extras",
            "ext_transitions", "ext_fusions", "ctor_failed"}

\* C4: get_vgg_atrous_extractor never raises for a preset, and the network it
\* returns has 6 base stages (stage i: layers[i] convolutions, all of filters[i]
\* channels, then the dilated stage) and len(extra_spec[im_size]) extra stages.
C4_PresetConstruction ==
    args.preset =>
        /\ pc # "ctor_failed"
        /\ pc \notin CtorPcs =>
             /\ Len(net.stages) = 6
             /\ \A k \in 1..5 :
                   /\ NumConvs(net.stages[k]) = args.layers[k]
                   /\ \A j \in 1..Len(net.stages[k]) :
                         net.stages[k][j].op = "Conv2D" =>
                             /\ net.stages[k][j].f = args.filters[k]
                             /\ net.stages[k][j].k = 3 /\ net.stages[k][j].p = 1
                   /\ Len(net.stages[k]) = args.layers[k] * (IF args.batch_norm THEN 3 ELSE 2)
             /\ NumConvs(net.stages[6]) = 2
             /\ net.stages[6][1] = Conv2D(1024, 3, 1, 6, 6)
             /\ Len(net.extras) = Len(args.extras)
             /\ \E im_size \in ImSizes : Len(net.extras) = Len(extra_spec(im_size))

C4_Witness ==
    /\ pc = "ready" /\ args.preset /\ args.batch_norm
    /\ args.layers = <<2, 2, 4, 4, 4>>
    /\ Len(net.stages) = 6 /\ Len(net.extras) = 2
    /\ Len(net.stages[3]) = 12

\* C5: when layers and filters differ in length the constructor raises at its
\* assertion and nothing has been created: no stage, convolution, Normalize,
\* init_scale, extra stage, transition or fusion.
C5_MismatchRaisesFirst ==
    (pc \notin {"start", "base_assert"} /\ Len(args.layers) # Len(args.filters)) =>
        /\ pc = "ctor_failed"
        /\ err = "AssertionError"
        /\ net = EmptyNet
        /\ net.attrs = {} /\ net.stages = <<>> /\ net.extras = <<>>

C5_Witness ==
    /\ pc = "ctor_failed" /\ err = "AssertionError"
    /\ Len(args.layers) = 5 /\ Len(args.filters) = 4
    /\ net = EmptyNet

IsPrefix(s, t) == Len(s) <= Len(t) /\ s = SubSeq(t, 1, Len(s))
Events(name) == SelectSeq(trace, LAMBDA e : e.op = name)
LastOp(t) == t.ops[Len(t.ops)]

\* C6: the ODM slots are written in the order 3, 2, 1, 0: slot 3 from
\* last_layer_trans(ARM_features[3]) before the loop, then three iterations
\* i = 3, 2, 1 writing slot i-1; the slot an iteration reads as deep operand
\* has been written before (None is never upsampled), and the shallow operand
\* of iteration i is transitions[i-1](ARM_features[i-1]).
C6_TopDownOrder ==
    InCall =>
        /\ err # "AttributeError"
        /\ IsPrefix(Events("odm_write"), <<Op("odm_write", 3), Op("odm_write", 2),
                                           Op("odm_write", 1), Op("odm_write", 0)>>)
        /\ IsPrefix(Events("odm_read"), <<Op("odm_read", 3), Op("odm_read", 2),
                                          Op("odm_read", 1)>>)
        /\ \A p \in 1..Len(trace) :
              trace[p].op = "odm_read" =>
                 \E q \in 1..(p - 1) : trace[q] = Op("odm_write", trace[p].idx)
        /\ pc = "fwd_topdown" =>
              /\ i \in 0..3
              /\ Len(Events("odm_write")) = 4 - i
              /\ Len(Events("odm_read")) = 3 - i
              /\ i > 0 => ODM[i + 1].kind = "T"
              /\ i = 3 => /\ trace = <<Op("odm_init", 4), Op("odm_write", 3)>>
                          /\ ODM[4].ops = Append(ARM[4].ops, Op("last_layer_trans", 0))
                          /\ upsampled_fet = NoneT
              /\ i < 3 => /\ transition_fet.ops = Append(ARM[i + 1].ops, Op("transition", i))
                          /\ upsampled_fet.ops = Append(ODM[i + 2].ops, Op("_upsample", 2))
                          /\ ODM[i + 1].ops = Append(transition_fet.ops, Op("add_relu", i))
        /\ pc \in {"fwd_fusions", "fwd_returned"} =>
              /\ Len(Events("odm_write")) = 4
              /\ Len(Events("odm_read")) = 3

C6_Witness ==
    /\ pc = "fwd_topdown" /\ i = 0
    /\ Events("odm_write") = <<Op("odm_write", 3), Op("odm_write", 2),
                               Op("odm_write", 1), Op("odm_write", 0)>>
    /\ \A k \in 1..4 : ODM[k].kind = "T"

\* C7: each of fusions[0..2] is applied exactly once, to the slot of its own
\* index, and only after the three top-down sums have been written; the deep
\* operand upsampled in the loop is therefore never a fused tensor, and
\* ODM_features[3] passes through no fusion block.
C7_FusionAfterSums ==
    InCall =>
        /\ IsPrefix(Events("fusion"), <<Op("fusion", 0), Op("fusion", 1), Op("fusion", 2)>>)
        /\ \A p \in 1..Len(trace) :
              trace[p].op = "fusion" =>
                 \A k \in 0..2 : \E q \in 1..(p - 1) : trace[q] = Op("odm_write", k)
        /\ upsampled_fet.kind # "None" =>
              /\ upsampled_fet.fus = {}
              /\ upsampled_fet.ops[Len(upsampled_fet.ops) - 1].op \in {"add_relu", "last_layer_trans"}
        /\ pc = "fwd_topdown" => \A k \in 1..4 : ODM[k].fus = {}
        /\ pc = "fwd_fusions" =>
              \A k \in 0..2 : ODM[k + 1].fus = IF k < i THEN {k} ELSE {}
        /\ Len(ODM) = 4 => ODM[4].fus = {}
        /\ pc = "fwd_returned" =>
              /\ Events("fusion") = <<Op("fusion", 0), Op("fusion", 1), Op("fusion", 2)>>
              /\ \A k \in 0..2 : /\ ODM[k + 1].fus = {k}
                                 /\ LastOp(ODM[k + 1]) = Op("fusion", k)
                                 /\ ODM[k + 1].ops[Len(ODM[k + 1].ops) - 1] = Op("add_relu", k)
              /\ LastOp(ODM[4]) = Op("last_layer_trans", 0)

C7_Witness ==
    /\ pc = "fwd_returned"
    /\ Events("fusion") = <<Op("fusion", 0), Op("fusion", 1), Op("fusion", 2)>>
    /\ ODM[1].fus = {0} /\ ODM[2].fus = {1} /\ ODM[3].fus = {2} /\ ODM[4].fus = {}
    /\ upsampled_fet.fus = {}

\* C8: with layers and filters of equal length L # 5 no forward call returns a
\* mapping: the constructor raises (IndexError at filters[3], L < 4), or every
\* forward call fails at the stage-count assertion, before any stage, pooling
\* or Normalize has run and before a mapping or an ARM entry exists.
C8_WrongStageCount ==
    (pc # "start" /\ Len(args.layers) = Len(args.filters) /\ Len(args.layers) # 5) =>
        /\ pc # "fwd_returned"
        /\ DOMAIN outputs = {}
        /\ pc \in FwdPcs =>
              /\ pc = "fwd_failed"
              /\ err = "AssertionError"
              /\ x.ops = <<Op("broadcast_mul", 0)>>
              /\ trace = <<>>
        /\ pc = "ctor_failed" => err = "IndexError" /\ Len(args.filters) < 4
        /\ pc = "ready" => Len(net.stages) = Len(args.layers) + 1

C8_Witness ==
    /\ pc = "fwd_failed" /\ err = "AssertionError"
    /\ Len(args.layers) = 6 /\ Len(args.filters) = 6
    /\ Len(net.stages) = 7
    /\ calls = 1
    /\ DOMAIN outputs = {}

HasNormalize(t) == \E p \in 1..Len(t.ops) : t.ops[p].op = "Normalize"
Front(s) == SubSeq(s, 1, Len(s) - 1)

\* C9: the Normalize layers are side branches: ARM_features[0] is norm4 of
\* the stage-3 output and ARM_features[1] is norm5 of the stage-5 output, the
\* running tensor x never has a Normalize in its history (the pooling after
\* stage 3 and the first extra stage get the un-normalized stage output), and
\* ARM_features[2], ARM_features[3] are the running tensor after each extra stage.
C9_NormalizeSideBranch ==
    InCall =>
        /\ ~HasNormalize(x)
        /\ Len(ARM) >= 1 =>
              ARM[1].ops = <<Op("broadcast_mul", 0), Op("stage", 0), Op("Pooling", 2),
                             Op("stage", 1), Op("Pooling", 2), Op("stage", 2),
                             Op("Pooling", 2), Op("stage", 3), Op("Normalize", 4)>>
        /\ pc = "fwd_pool4" => ARM[1].ops = Append(x.ops, Op("Normalize", 4))
        /\ Len(ARM) >= 2 =>
              ARM[2].ops = Front(ARM[1].ops) \o <<Op("Pooling", 2), Op("stage", 4), Op("Pooling", 3),
                                                 Op("stage", 5), Op("Normalize", 5)>>
        /\ (pc = "fwd_extras" /\ i = 0) => ARM[2].ops = Append(x.ops, Op("Normalize", 5))
        /\ Len(ARM) >= 3 => ARM[3].ops = Append(Front(ARM[2].ops), Op("extra", 0))
        /\ Len(ARM) >= 4 => ARM[4].ops = Append(ARM[3].ops, Op("extra", 1))
        /\ (pc = "fwd_extras" /\ i >= 1) => x = ARM[Len(ARM)]

C9_Witness ==
    /\ pc = "fwd_last_trans"
    /\ Len(ARM) = 4
    /\ HasNormalize(ARM[1]) /\ HasNormalize(ARM[2])
    /\ ~HasNormalize(ARM[3]) /\ ~HasNormalize(ARM[4])
    /\ x = ARM[4]

Aligned(h) == CeilDiv(h, 8) % 8 = 0
Halves(a, b, c, d) == 2 * d = c /\ 2 * c = b /\ 2 * b = a

\* C10: on a preset network with H >= 16 and W >= 16 the ARM sizes are
\* a0 = ceil(H/8), a1 = ceil(a0/2), a2 = ceil(a1/2), a3 = ceil(a2/2) (same for
\* W); the three additions have equal-sized operands exactly when ceil(H/8)
\* and ceil(W/8) are multiples of 8; then the call returns (also when H is no
\* multiple of 64), otherwise it fails at an addition with unequal operands.
C10_AlignmentIff ==
    (InCall /\ args.preset /\ x_in.h >= 16 /\ x_in.w >= 16) =>
        /\ Len(ARM) >= 1 => /\ ARM[1].h = CeilDiv(x_in.h, 8)
                            /\ ARM[1].w = CeilDiv(x_in.w, 8)
        /\ \A k \in 2..Len(ARM) : /\ ARM[k].h = CeilDiv(ARM[k - 1].h, 2)
                                  /\ ARM[k].w = CeilDiv(ARM[k - 1].w, 2)
        /\ Len(ARM) = 4 =>
              /\ Halves(ARM[1].h, ARM[2].h, ARM[3].h, ARM[4].h) <=> Aligned(x_in.h)
              /\ Halves(ARM[1].w, ARM[2].w, ARM[3].w, ARM[4].w) <=> Aligned(x_in.w)
        /\ pc = "fwd_returned" => Aligned(x_in.h) /\ Aligned(x_in.w)
        /\ pc = "fwd_failed" =>
              /\ ~(Aligned(x_in.h) /\ Aligned(x_in.w))
              /\ err = "MXNetError"
              /\ Len(ARM) = 4
              /\ upsampled_fet.kind = "T" /\ transition_fet.kind = "T"
              /\ <<upsampled_fet.h, upsampled_fet.w>> # <<transition_fet.h, transition_fet.w>>

C10_Witness ==
    /\ pc = "fwd_returned" /\ args.preset
    /\ x_in.h = 57 /\ x_in.w = 64
    /\ ARM[1].h = 8 /\ ARM[4].h = 1
    /\ Len(ODM) = 4

====
